---- MODULE Spec2Model ----
(***************************************************************************)
(* Staff debug panel of the open-response-assessment XBlock                *)
(* (openassessment/xblock/staff_info_mixin.py).                            *)
(*                                                                         *)
(* Every handler runs as one synchronous request: an action of this model  *)
(* is one whole request, from the permission decorator to the returned     *)
(* response.  The state keeps the block's configuration, the peer scoring  *)
(* store, and, for the last request, the caller, the request data, the     *)
(* replies the collaborator APIs gave, the ordered log of collaborator     *)
(* calls, and the response.                                                *)
(*                                                                         *)
(* Conventions.  A Python value that may be None is a set with at most one *)
(* element: {} is None, {v} is v, and truthiness is "# {}".  A Python dict *)
(* is a record; a key the dict lacks is a field the record lacks.  A       *)
(* collaborator reply is [raises |-> b, value |-> v]: the returned value,  *)
(* or the message of the typed error it raised.                            *)
(***************************************************************************)
EXTENDS Integers, Sequences, FiniteSets, TLC

VARIABLES
    rubric_assessments,  \* block field: configured assessment step names, in order
    rubric_criteria,     \* block field: the rubric criteria (with labels)
    stored_score,        \* peer scoring store: student id -> override score or None
    op,                  \* name of the last handler invoked ("none" at start)
    caller,              \* is_admin / is_course_staff / in_studio_preview of that request
    data,                \* request payload of that request
    api,                 \* replies the collaborators gave (or would give) in that request
    body,                \* TRUE iff the decorated function itself was invoked
    calls,               \* collaborator calls made by that request, in order
    response             \* what the handler returned, or the error that escaped it

vars == <<rubric_assessments, rubric_criteria, stored_score, op, caller, data,
          api, body, calls, response>>

-----------------------------------------------------------------------------
(* Bounds of the model *)

MaxSteps == 2          \* longest configured list of assessment steps
MaxAssessments == 1    \* most assessments one peer fetch returns
MaxScore == 2          \* largest entry of a max-score table
MaxPoints == 1         \* largest points value a staff member submits

(* Sentinels of openassessment.xblock.resolve_dates; dates are day numbers *)
DISTANT_PAST == 0
DISTANT_FUTURE == 3

-----------------------------------------------------------------------------
(* Generic helpers *)

None == {}

In(x, seq) == \E i \in DOMAIN seq : seq[i] = x

\* dict[k] = v on a copy of the dict
SetKey(rec, k, v) == [f \in DOMAIN rec \cup {k} |-> IF f = k THEN v ELSE rec[f]]

Call(name, args) == [api |-> name, args |-> args]

Called(log, name) == \E i \in DOMAIN log : log[i].api = name

CountCalls(log, name) == Cardinality({i \in DOMAIN log : log[i].api = name})

Reply(v) == [raises |-> FALSE, value |-> v]

Raise(msg) == [raises |-> TRUE, value |-> msg]

-----------------------------------------------------------------------------
(* The block and its environment *)

PEER == "peer-assessment"
SELF == "self-assessment"
EBA == "example-based-assessment"

StepNames == {PEER, SELF, EBA}

NoDuplicates(s) == \A i, j \in DOMAIN s : i # j => s[i] # s[j]

\* every sequence of distinct elements of S of length at most n
RECURSIVE DistinctSeqs(_, _)
DistinctSeqs(S, n) ==
    IF n = 0 THEN {<<>>}
    ELSE LET shorter == DistinctSeqs(S, n - 1)
             longer == {Append(s, x) : s \in shorter, x \in S}
         IN  shorter \cup {t \in longer : NoDuplicates(t)}

StepConfigs == DistinctSeqs(StepNames, MaxSteps)

CriterionNames == {"ideas", "content"}

InitialRubric == << [name |-> "ideas", label |-> "Ideas"],
                    [name |-> "content", label |-> "Content"] >>

\* s1 submitted an answer with an uploaded file, s2 one without, s3 nothing
Students == {"s1", "s2", "s3"}

\* students whose peer score a staff member overrides
OverrideTargets == {"s1", "s2"}

Booleans == {TRUE, FALSE}

Callers == [is_admin : Booleans, is_course_staff : Booleans, in_studio_preview : Booleans]

\* self.assessment_steps
assessment_steps(self) == self.rubric_assessments

\* self.get_assessment_module(name): the step's configuration, or None
get_assessment_module(self, name) ==
    IF In(name, self.rubric_assessments)
    THEN {[name |-> name, algorithm_id |-> "ease", examples |-> <<"ex1">>]}
    ELSE None

\* self.get_student_item_dict(): identity of the requesting user on this item
get_student_item_dict(self) ==
    [student_id |-> "staff", course_id |-> "c1", item_id |-> "i1",
     item_type |-> "openassessment"]

create_rubric_dict(prompt, criteria) == [prompt |-> prompt, criteria |-> criteria]

convert_training_examples_list_to_dict(examples) == [i \in DOMAIN examples |-> [answer |-> examples[i]]]

\* submission_api.get_submissions(student_item, limit): most recent first
get_submissions(student_item, limit) ==
    CASE student_item.student_id = "s1" ->
            << [uuid |-> "u1", answer |-> [text |-> "a1", file_key |-> "k1"]] >>
      [] student_item.student_id = "s2" ->
            << [uuid |-> "u2", answer |-> [text |-> "a2"]] >>
      [] OTHER -> <<>>

\* peer_api.score_override(student_item, points_override, points_possible):
\* the scoring subsystem enforces points_override <= points_possible, reports a
\* violation as its result, and otherwise overwrites the stored score.
score_override(store, student_item, points_override, points_possible) ==
    IF points_override <= points_possible
    THEN [result |-> [success |-> TRUE, msg |-> "Score overridden"],
          store |-> [store EXCEPT ![student_item.student_id] =
                        {[points_earned |-> points_override,
                          points_possible |-> points_possible]}]]
    ELSE [result |-> [success |-> FALSE, msg |-> "Invalid override score"],
          store |-> store]


\* xblock.render_error(msg): the error fragment
render_error(error_msg) == [kind |-> "error", msg |-> error_msg]

\* self.render_assessment(path, context): the rendered fragment
render_assessment(path, context) == [kind |-> "rendered", path |-> path, context |-> context]

\* XBlock.json_handler: the returned dict, serialised
json_response(value) == [kind |-> "json", value |-> value]

\* an exception that leaves the handler
raised(error, msg) == [kind |-> "raised", error |-> error, msg |-> msg]

\* what one request did: whether the decorated function ran, the response, the
\* collaborator calls, the peer scoring store and the block's rubric afterwards
Outcome(ran, resp, log, store, rubric) ==
    [body |-> ran, response |-> resp, calls |-> log, store |-> store, rubric |-> rubric]

-----------------------------------------------------------------------------
(* Permission decorators *)

admin_permission_errors ==
    [SCHEDULE_TRAINING |-> "You do not have permission to schedule training",
     RESCHEDULE_TASKS |-> "You do not have permission to reschedule tasks."]

staff_permission_errors ==
    [STAFF_INFO |-> "You do not have permission to access staff information",
     STUDENT_INFO |-> "You do not have permission to access student information."]

\* faulty variant: the preview-mode test is dropped
require_global_admin_no_preview(error_key, xblock, store, func) ==
    IF ~xblock.is_admin
    THEN Outcome(FALSE,
                 json_response([success |-> FALSE, msg |-> admin_permission_errors[error_key]]),
                 <<>>, store, xblock.rubric_criteria)
    ELSE func

\* faulty variant: the function runs first and the permission test only replaces
\* its response
require_global_admin_late(error_key, xblock, store, func) ==
    IF ~xblock.is_admin \/ xblock.in_studio_preview
    THEN Outcome(FALSE,
                 json_response([success |-> FALSE, msg |-> admin_permission_errors[error_key]]),
                 func.calls, func.store, func.rubric)
    ELSE func

\* require_global_admin(error_key)(func)(xblock, ...); func is the outcome the
\* decorated function has when it is invoked
require_global_admin(error_key, xblock, store, func) ==
    IF ~xblock.is_admin \/ xblock.in_studio_preview
    THEN Outcome(FALSE,
                 json_response([success |-> FALSE, msg |-> admin_permission_errors[error_key]]),
                 <<>>, store, xblock.rubric_criteria)
    ELSE func

\* require_course_staff(error_key)(func)(xblock, ...)
require_course_staff(error_key, xblock, store, func) ==
    IF ~xblock.is_course_staff \/ xblock.in_studio_preview
    THEN Outcome(FALSE, render_error(staff_permission_errors[error_key]),
                 <<>>, store, xblock.rubric_criteria)
    ELSE func

-----------------------------------------------------------------------------
(* Training scheduler *)

\* faulty variant: the backend is asked to train although the item has no
\* example-based-assessment configuration
schedule_training_unconfigured(xblock, request, replies, store) ==
    LET student_item_dict == get_student_item_dict(xblock)
        trained == replies.train_classifiers
        log == << Call("get_assessment_module", <<EBA>>),
                  Call("get_student_item_dict", <<>>),
                  Call("train_classifiers",
                       <<student_item_dict.course_id, student_item_dict.item_id>>) >>
    IN  Outcome(TRUE,
                json_response(
                    IF trained.raises
                    THEN [success |-> FALSE,
                          msg |-> "An error occurred scheduling classifier training: "
                                  \o trained.value]
                    ELSE [success |-> TRUE, workflow_uuid |-> trained.value,
                          msg |-> "Training scheduled with new Workflow UUID: "
                                  \o trained.value]),
                log, store, xblock.rubric_criteria)

\* StaffInfoMixin.schedule_training, the decorated function
schedule_training(xblock, request, replies, store) ==
    LET assessment == get_assessment_module(xblock, EBA)
        student_item_dict == get_student_item_dict(xblock)
        head == << Call("get_assessment_module", <<EBA>>),
                   Call("get_student_item_dict", <<>>) >>
    IN  IF assessment # None
        THEN LET module == CHOOSE m \in assessment : TRUE
                 examples == module.examples
                 trained == replies.train_classifiers
                 log == Append(head,
                          Call("train_classifiers",
                               << create_rubric_dict(xblock.prompt, xblock.rubric_criteria),
                                  convert_training_examples_list_to_dict(examples),
                                  student_item_dict.course_id,
                                  student_item_dict.item_id,
                                  module.algorithm_id >>))
             IN  IF ~trained.raises
                 THEN Outcome(TRUE,
                        json_response(
                            [success |-> TRUE,
                             workflow_uuid |-> trained.value,
                             msg |-> "Training scheduled with new Workflow UUID: "
                                     \o trained.value]),
                        log, store, xblock.rubric_criteria)
                 ELSE Outcome(TRUE,
                        json_response(
                            [success |-> FALSE,
                             msg |-> "An error occurred scheduling classifier training: "
                                     \o trained.value]),
                        log, store, xblock.rubric_criteria)
        ELSE Outcome(TRUE,
               json_response(
                   [success |-> FALSE,
                    msg |-> "Example Based Assessment is not configured for this location."]),
               head, store, xblock.rubric_criteria)

\* faulty variant: the AI error of the backend is not caught
reschedule_unfinished_tasks_uncaught(xblock, request, replies, store) ==
    LET student_item_dict == get_student_item_dict(xblock)
        rescheduled == replies.reschedule_unfinished_tasks
        log == << Call("get_student_item_dict", <<>>),
                  Call("reschedule_unfinished_tasks",
                       <<student_item_dict.course_id, student_item_dict.item_id, "grade">>) >>
    IN  IF ~rescheduled.raises
        THEN Outcome(TRUE,
               json_response(
                   [success |-> TRUE,
                    msg |-> "All AI tasks associated with this item have been rescheduled successfully."]),
               log, store, xblock.rubric_criteria)
        ELSE Outcome(TRUE, raised("AIError", rescheduled.value),
                     log, store, xblock.rubric_criteria)

\* faulty variant: a failed request is repeated once before it is reported
reschedule_unfinished_tasks_retry(xblock, request, replies, store) ==
    LET student_item_dict == get_student_item_dict(xblock)
        rescheduled == replies.reschedule_unfinished_tasks
        request_call == Call("reschedule_unfinished_tasks",
                             <<student_item_dict.course_id, student_item_dict.item_id, "grade">>)
    IN  IF ~rescheduled.raises
        THEN Outcome(TRUE,
               json_response(
                   [success |-> TRUE,
                    msg |-> "All AI tasks associated with this item have been rescheduled successfully."]),
               <<Call("get_student_item_dict", <<>>), request_call>>,
               store, xblock.rubric_criteria)
        ELSE Outcome(TRUE,
               json_response(
                   [success |-> FALSE,
                    msg |-> "An error occurred while rescheduling tasks: "
                            \o rescheduled.value]),
               <<Call("get_student_item_dict", <<>>), request_call, request_call>>,
               store, xblock.rubric_criteria)

\* StaffInfoMixin.reschedule_unfinished_tasks, the decorated function
reschedule_unfinished_tasks(xblock, request, replies, store) ==
    LET student_item_dict == get_student_item_dict(xblock)
        course_id == student_item_dict.course_id
        item_id == student_item_dict.item_id
        rescheduled == replies.reschedule_unfinished_tasks
        log == << Call("get_student_item_dict", <<>>),
                  Call("reschedule_unfinished_tasks", <<course_id, item_id, "grade">>) >>
    IN  IF ~rescheduled.raises
        THEN Outcome(TRUE,
               json_response(
                   [success |-> TRUE,
                    msg |-> "All AI tasks associated with this item have been rescheduled successfully."]),
               log, store, xblock.rubric_criteria)
        ELSE Outcome(TRUE,
               json_response(
                   [success |-> FALSE,
                    msg |-> "An error occurred while rescheduling tasks: "
                            \o rescheduled.value]),
               log, store, xblock.rubric_criteria)

-----------------------------------------------------------------------------
(* Score override *)

\* faulty variant: the two point values are forwarded in the wrong order
peer_score_override_swapped(xblock, request, replies, store) ==
    LET student_item_dict ==
            [get_student_item_dict(xblock) EXCEPT !.student_id = request.student_id]
        written == score_override(store, student_item_dict,
                                  request.points_possible, request.points_override)
    IN  Outcome(TRUE, json_response(written.result),
                << Call("get_student_item_dict", <<>>),
                   Call("score_override",
                        <<student_item_dict, request.points_possible,
                          request.points_override>>) >>,
                written.store, xblock.rubric_criteria)

\* StaffInfoMixin.peer_score_override, the decorated function
peer_score_override(xblock, request, replies, store) ==
    LET student_id == request.student_id
        points_possible == request.points_possible
        points_override == request.points_override
        student_item_dict ==
            [get_student_item_dict(xblock) EXCEPT !.student_id = student_id]
        written == score_override(store, student_item_dict, points_override, points_possible)
    IN  Outcome(TRUE, json_response(written.result),
                << Call("get_student_item_dict", <<>>),
                   Call("score_override",
                        <<student_item_dict, points_override, points_possible>>) >>,
                written.store, xblock.rubric_criteria)

-----------------------------------------------------------------------------
(* Staff panel *)

\* faulty variant: the sentinel tests are not strict
RECURSIVE step_dates_not_strict(_, _)
step_dates_not_strict(steps, is_closed) ==
    IF steps = <<>> THEN <<>>
    ELSE LET step == Head(steps)
             start_date == is_closed[step].start
             due_date == is_closed[step].due
             rest == step_dates_not_strict(Tail(steps), is_closed)
         IN  IF step = EBA THEN rest
             ELSE << [step |-> step,
                      start |-> IF start_date >= DISTANT_PAST THEN {start_date} ELSE None,
                      due |-> IF due_date <= DISTANT_FUTURE THEN {due_date} ELSE None] >>
                  \o rest

\* the loop of get_staff_path_and_context that fills context['step_dates'];
\* is_closed[step] is what self.is_closed(step=step, course_staff=False) returns
RECURSIVE step_dates(_, _)
step_dates(steps, is_closed) ==
    IF steps = <<>> THEN <<>>
    ELSE LET step == Head(steps)
             start_date == is_closed[step].start
             due_date == is_closed[step].due
             rest == step_dates(Tail(steps), is_closed)
         IN  IF step = EBA THEN rest
             ELSE << [step |-> step,
                      start |-> IF start_date > DISTANT_PAST THEN {start_date} ELSE None,
                      due |-> IF due_date < DISTANT_FUTURE THEN {due_date} ELSE None] >>
                  \o rest

\* the is_closed calls that loop makes
RECURSIVE step_date_calls(_)
step_date_calls(steps) ==
    IF steps = <<>> THEN <<>>
    ELSE IF Head(steps) = EBA THEN step_date_calls(Tail(steps))
         ELSE <<Call("is_closed", <<Head(steps), FALSE>>)>> \o step_date_calls(Tail(steps))

\* StaffInfoMixin.get_staff_path_and_context: (path, context), or the error
\* that escapes it, with the collaborator calls made
get_staff_path_and_context(xblock, replies) ==
    LET path == "openassessmentblock/staff_debug/staff_debug.html"
        student_item == get_student_item_dict(xblock)
        counts == replies.get_workflow_status_counts
        example_based_assessment == get_assessment_module(xblock, EBA)
        display_ai_staff_info ==
            /\ xblock.is_admin
            /\ example_based_assessment # None
            /\ ~xblock.in_studio_preview
        classifierset == replies.get_classifier_set_info
        head == << Call("get_student_item_dict", <<>>),
                   Call("get_workflow_status_counts", <<>>),
                   Call("get_assessment_module", <<EBA>>) >>
                \o (IF display_ai_staff_info
                    THEN << Call("get_classifier_set_info",
                                 << create_rubric_dict(xblock.prompt, xblock.rubric_criteria),
                                    (CHOOSE m \in example_based_assessment : TRUE).algorithm_id,
                                    student_item.course_id, student_item.item_id >>) >>
                    ELSE <<>>)
        steps == <<"submission">> \o assessment_steps(xblock)
        context0 == [item_id |-> student_item.item_id,
                     status_counts |-> counts.status_counts,
                     num_submissions |-> counts.num_submissions,
                     display_schedule_training |-> display_ai_staff_info,
                     display_reschedule_unfinished_tasks |-> display_ai_staff_info,
                     step_dates |-> step_dates(steps, replies.is_closed),
                     allow_latex |-> xblock.allow_latex]
    IN  IF display_ai_staff_info /\ classifierset.raises
        THEN [raises |-> TRUE, msg |-> classifierset.value, calls |-> head]
        ELSE [raises |-> FALSE,
              path |-> path,
              context |-> IF display_ai_staff_info
                          THEN SetKey(context0, "classifierset", classifierset.value)
                          ELSE context0,
              calls |-> head \o step_date_calls(steps)]

\* StaffInfoMixin.render_staff_info, the decorated function
render_staff_info(xblock, request, replies, store) ==
    LET got == get_staff_path_and_context(xblock, replies)
    IN  IF got.raises
        THEN Outcome(TRUE, raised("AIError", got.msg), got.calls, store, xblock.rubric_criteria)
        ELSE Outcome(TRUE, render_assessment(got.path, got.context), got.calls,
                     store, xblock.rubric_criteria)

-----------------------------------------------------------------------------
(* Student panel *)

\* faulty variant: a file-upload error discards the submission
resolve_submission_file_fatal(xblock, student_id, replies) ==
    LET item == get_student_item_dict(xblock)
        student_item == IF student_id # "" THEN [item EXCEPT !.student_id = student_id]
                        ELSE item
        submissions == IF student_id # "" THEN get_submissions(student_item, 1) ELSE <<>>
        found == submissions # <<>>
        has_file == found /\ "file_key" \in DOMAIN submissions[1].answer
        url == replies.get_download_url
        kept == found /\ ~(has_file /\ url.raises)
    IN  [student_item |-> student_item,
         submission_uuid |-> IF kept THEN {submissions[1].uuid} ELSE None,
         submission |-> IF ~kept THEN None
                        ELSE IF has_file
                             THEN {SetKey(submissions[1], "image_url", url.value)}
                             ELSE {submissions[1]},
         calls |-> <<Call("get_student_item_dict", <<>>)>>
                   \o (IF student_id # ""
                       THEN <<Call("get_submissions", <<student_item, 1>>)>> ELSE <<>>)
                   \o (IF has_file
                       THEN <<Call("get_download_url", <<submissions[1].answer.file_key>>)>>
                       ELSE <<>>)]

\* get_student_info_path_and_context, first part: the student item, the
\* student's latest submission and the download URL of its uploaded file
resolve_submission(xblock, student_id, replies) ==
    LET item == get_student_item_dict(xblock)
        student_item == IF student_id # "" THEN [item EXCEPT !.student_id = student_id]
                        ELSE item
        submissions == IF student_id # "" THEN get_submissions(student_item, 1) ELSE <<>>
        found == submissions # <<>>
        has_file == found /\ "file_key" \in DOMAIN submissions[1].answer
        url == replies.get_download_url
    IN  [student_item |-> student_item,
         submission_uuid |-> IF found THEN {submissions[1].uuid} ELSE None,
         submission |-> IF ~found THEN None
                        ELSE IF has_file /\ ~url.raises
                             THEN {SetKey(submissions[1], "image_url", url.value)}
                             ELSE {submissions[1]},
         calls |-> <<Call("get_student_item_dict", <<>>)>>
                   \o (IF student_id # ""
                       THEN <<Call("get_submissions", <<student_item, 1>>)>> ELSE <<>>)
                   \o (IF has_file
                       THEN <<Call("get_download_url", <<submissions[1].answer.file_key>>)>>
                       ELSE <<>>)]

\* get_student_info_path_and_context, second part: one fetch per configured
\* strategy, always made, with the submission uuid or None
fetch_assessments(xblock, resolved, replies) ==
    LET steps == assessment_steps(xblock)
        submission_uuid == resolved.submission_uuid
        peer == In(PEER, steps)
        self == In(SELF, steps)
        ai == In(EBA, steps)
        latest == replies.get_latest_assessment
    IN  [peer_assessments |-> IF peer THEN replies.get_assessments ELSE <<>>,
         submitted_assessments |-> IF peer THEN replies.get_submitted_assessments ELSE <<>>,
         scores |-> IF peer THEN replies.get_data_for_override_score ELSE <<>>,
         problem_closed |-> IF peer THEN {replies.is_closed[PEER].closed} ELSE None,
         self_assessment |-> IF self THEN replies.get_assessment ELSE None,
         raises |-> ai /\ latest.raises,
         example_based_assessment |-> IF ai THEN latest.value ELSE None,
         calls |-> (IF peer
                    THEN << Call("get_assessments", <<submission_uuid>>),
                            Call("get_submitted_assessments", <<submission_uuid, FALSE>>),
                            Call("get_data_for_override_score",
                                 << submission_uuid, resolved.student_item,
                                    create_rubric_dict(xblock.prompt, xblock.rubric_criteria) >>),
                            Call("is_closed", <<PEER, FALSE>>) >>
                    ELSE <<>>)
                   \o (IF self THEN <<Call("get_assessment", <<submission_uuid>>)>> ELSE <<>>)
                   \o (IF ai THEN <<Call("get_latest_assessment", <<submission_uuid>>)>>
                       ELSE <<>>)]

\* faulty variant: the max scores are written into the block's own criteria
backfill_in_place(xblock, resolved, fetched, replies) ==
    LET assessed == \/ fetched.peer_assessments # <<>>
                    \/ fetched.self_assessment # None
                    \/ fetched.example_based_assessment # None
        max_scores == replies.get_rubric_max_scores
        own == xblock.rubric_criteria
        criteria == IF assessed
                    THEN [i \in DOMAIN own |->
                             SetKey(own[i], "total_value", max_scores[own[i].name])]
                    ELSE own
    IN  [context |-> [submission |-> resolved.submission,
                      peer_assessments |-> fetched.peer_assessments,
                      submitted_assessments |-> fetched.submitted_assessments,
                      self_assessment |-> fetched.self_assessment,
                      example_based_assessment |-> fetched.example_based_assessment,
                      rubric_criteria |-> criteria,
                      scores |-> fetched.scores,
                      problem_closed |-> fetched.problem_closed],
         calls |-> IF assessed
                   THEN <<Call("get_rubric_max_scores", <<resolved.submission_uuid>>)>>
                   ELSE <<>>,
         rubric |-> criteria]

\* get_student_info_path_and_context, third part: the context, with the
\* criteria's total_value backfilled on a deep copy once anything was assessed
backfill(xblock, resolved, fetched, replies) ==
    LET assessed == \/ fetched.peer_assessments # <<>>
                    \/ fetched.self_assessment # None
                    \/ fetched.example_based_assessment # None
        max_scores == replies.get_rubric_max_scores
        copy == xblock.rubric_criteria
    IN  [context |-> [submission |-> resolved.submission,
                      peer_assessments |-> fetched.peer_assessments,
                      submitted_assessments |-> fetched.submitted_assessments,
                      self_assessment |-> fetched.self_assessment,
                      example_based_assessment |-> fetched.example_based_assessment,
                      rubric_criteria |->
                          IF assessed
                          THEN [i \in DOMAIN copy |->
                                   SetKey(copy[i], "total_value", max_scores[copy[i].name])]
                          ELSE copy,
                      scores |-> fetched.scores,
                      problem_closed |-> fetched.problem_closed],
         calls |-> IF assessed
                   THEN <<Call("get_rubric_max_scores", <<resolved.submission_uuid>>)>>
                   ELSE <<>>,
         rubric |-> xblock.rubric_criteria]

\* StaffInfoMixin.get_student_info_path_and_context: (path, context), or the
\* error that escapes it, with the collaborator calls made
get_student_info_path_and_context(xblock, student_id, replies) ==
    LET resolved == resolve_submission(xblock, student_id, replies)
        fetched == fetch_assessments(xblock, resolved, replies)
        built == backfill(xblock, resolved, fetched, replies)
    IN  IF fetched.raises
        THEN [raises |-> TRUE, msg |-> fetched.example_based_assessment,
              calls |-> resolved.calls \o fetched.calls,
              rubric |-> xblock.rubric_criteria]
        ELSE [raises |-> FALSE,
              path |-> "openassessmentblock/staff_debug/student_info.html",
              context |-> built.context,
              calls |-> resolved.calls \o fetched.calls \o built.calls,
              rubric |-> built.rubric]

\* StaffInfoMixin.render_student_info, the decorated function
render_student_info(xblock, request, replies, store) ==
    LET student_id == request.student_id
        got == get_student_info_path_and_context(xblock, student_id, replies)
    IN  IF got.raises
        THEN Outcome(TRUE, raised("AIError", got.msg), got.calls, store, got.rubric)
        ELSE Outcome(TRUE, render_assessment(got.path, got.context), got.calls,
                     store, got.rubric)

-----------------------------------------------------------------------------
(* Replies of the collaborator APIs *)

AllSteps == {"submission"} \cup StepNames

Dates == DISTANT_PAST..DISTANT_FUTURE

\* is_closed(step, course_staff=False): a window that opens before it closes
Windows == {w \in [closed : {FALSE}, start : Dates, due : Dates] : w.start < w.due}

OpenWindow == [closed |-> FALSE, start |-> DISTANT_PAST, due |-> DISTANT_FUTURE]

Assessments(kind, n) == [i \in 1..n |-> [id |-> i, score_type |-> kind]]

PeerLists == {Assessments("PE", n) : n \in 0..MaxAssessments}

MaxScoreTables == [CriterionNames -> 1..MaxScore]

AIErrorMessage == "AI backend failure"

WorkflowUuids == {"w1", "w2"}

TrainReplies == {Reply(u) : u \in WorkflowUuids} \cup {Raise(AIErrorMessage)}

RescheduleReplies == {Reply(None), Raise(AIErrorMessage)}

ClassifierReplies == {Reply({[algorithm_id |-> "ease"]}), Raise(AIErrorMessage)}

DownloadReplies == {Reply("url1"), Raise("file storage failure")}

SelfReplies == {None, {[id |-> 1, score_type |-> "SE"]}}

LatestReplies == {Reply(None), Reply({[id |-> 1, score_type |-> "AI"]}), Raise(AIErrorMessage)}

\* the replies of a request that consults no collaborator whose reply varies
DefaultReplies ==
    [get_workflow_status_counts |->
         [status_counts |-> << [status |-> "peer", count |-> 6],
                               [status |-> "done", count |-> 4] >>,
          num_submissions |-> 10],
     get_classifier_set_info |-> Reply(None),
     is_closed |-> [s \in AllSteps |-> OpenWindow],
     train_classifiers |-> Reply("w1"),
     reschedule_unfinished_tasks |-> Reply(None),
     get_download_url |-> Reply("url1"),
     get_assessments |-> <<>>,
     get_submitted_assessments |-> <<>>,
     get_data_for_override_score |-> [points_earned |-> 1, points_possible |-> 2],
     get_assessment |-> None,
     get_latest_assessment |-> Reply(None),
     get_rubric_max_scores |-> [c \in CriterionNames |-> 1]]

Admin(clr) == clr.is_admin /\ ~clr.in_studio_preview

Staff(clr) == clr.is_course_staff /\ ~clr.in_studio_preview

\* the steps of the staff panel's date list
Displayed ==
    ({"submission"} \cup {rubric_assessments[i] : i \in DOMAIN rubric_assessments}) \ {EBA}

StaffReplies(clr) ==
    IF Staff(clr)
    THEN { [DefaultReplies EXCEPT
              !.get_classifier_set_info = c,
              !.is_closed = [s \in AllSteps |-> IF s \in Displayed THEN w[s] ELSE OpenWindow]]
           : c \in IF clr.is_admin /\ In(EBA, rubric_assessments)
                   THEN ClassifierReplies ELSE {Reply(None)},
             w \in [Displayed -> Windows] }
    ELSE {DefaultReplies}

TrainingReplies(clr) ==
    IF Admin(clr) /\ In(EBA, rubric_assessments)
    THEN {[DefaultReplies EXCEPT !.train_classifiers = t] : t \in TrainReplies}
    ELSE {DefaultReplies}

RescheduleTaskReplies(clr) ==
    IF Admin(clr)
    THEN {[DefaultReplies EXCEPT !.reschedule_unfinished_tasks = r] : r \in RescheduleReplies}
    ELSE {DefaultReplies}

\* the max-score table is consulted only once something was assessed
TablesFor(p, sa, la) ==
    IF ~la.raises /\ (p # <<>> \/ sa # None \/ la.value # None)
    THEN MaxScoreTables
    ELSE {DefaultReplies.get_rubric_max_scores}

StudentReplies(clr, student_id) ==
    IF Staff(clr)
    THEN UNION {
           { [DefaultReplies EXCEPT
                !.get_download_url = u,
                !.get_assessments = p,
                !.get_submitted_assessments = Assessments("PE", 1),
                !.is_closed = [s \in AllSteps |->
                                 IF s = PEER THEN [OpenWindow EXCEPT !.closed = TRUE]
                                 ELSE OpenWindow],
                !.get_assessment = sa,
                !.get_latest_assessment = la,
                !.get_rubric_max_scores = m]
             : m \in TablesFor(p, sa, la) }
           : u \in IF student_id = "s1" THEN DownloadReplies ELSE {Reply("url1")},
             p \in IF In(PEER, rubric_assessments) THEN PeerLists ELSE {<<>>},
             sa \in IF In(SELF, rubric_assessments) THEN SelfReplies ELSE {None},
             la \in IF In(EBA, rubric_assessments) THEN LatestReplies ELSE {Reply(None)} }
    ELSE {DefaultReplies}

-----------------------------------------------------------------------------
(* Requests *)

NoData == [student_id |-> "", points_override |-> 0, points_possible |-> 0]

StudentData == {[NoData EXCEPT !.student_id = s] : s \in Students \cup {""}}

OverrideData == [student_id : OverrideTargets,
                 points_override : 0..(MaxPoints + 1),
                 points_possible : 1..MaxPoints]

\* the block as the request of caller clr sees it
XBlock(clr) ==
    [is_admin |-> clr.is_admin,
     is_course_staff |-> clr.is_course_staff,
     in_studio_preview |-> clr.in_studio_preview,
     rubric_assessments |-> rubric_assessments,
     rubric_criteria |-> rubric_criteria,
     prompt |-> "Prompt",
     allow_latex |-> FALSE]

\* one request, from dispatch to the handler's return
Handle(name, clr, request, replies, outcome) ==
    /\ op' = name
    /\ caller' = clr
    /\ data' = request
    /\ api' = replies
    /\ body' = outcome.body
    /\ calls' = outcome.calls
    /\ response' = outcome.response
    /\ stored_score' = outcome.store
    /\ rubric_criteria' = outcome.rubric
    /\ UNCHANGED rubric_assessments

NoCaller == [is_admin |-> FALSE, is_course_staff |-> FALSE, in_studio_preview |-> FALSE]

Init ==
    /\ rubric_assessments \in StepConfigs
    /\ rubric_criteria = InitialRubric
    /\ stored_score = [s \in Students |-> None]
    /\ op = "none"
    /\ caller = NoCaller
    /\ data = NoData
    /\ api = DefaultReplies
    /\ body = FALSE
    /\ calls = <<>>
    /\ response = [kind |-> "none"]

\* requests are served one at a time
Idle == op = "none"

\* the response is handed to the caller and the request-scoped state is
\* discarded; the block's fields and the scoring store persist
Respond ==
    /\ op # "none"
    /\ op' = "none"
    /\ caller' = NoCaller
    /\ data' = NoData
    /\ api' = DefaultReplies
    /\ body' = FALSE
    /\ calls' = <<>>
    /\ response' = [kind |-> "none"]
    /\ UNCHANGED <<rubric_assessments, rubric_criteria, stored_score>>

RenderStaffInfo ==
    Idle /\ \E clr \in Callers : \E replies \in StaffReplies(clr) :
        Handle("render_staff_info", clr, NoData, replies,
               require_course_staff("STAFF_INFO", XBlock(clr), stored_score,
                   render_staff_info(XBlock(clr), NoData, replies, stored_score)))

ScheduleTraining ==
    Idle /\ \E clr \in Callers : \E replies \in TrainingReplies(clr) :
        Handle("schedule_training", clr, NoData, replies,
               require_global_admin("SCHEDULE_TRAINING", XBlock(clr), stored_score,
                   schedule_training(XBlock(clr), NoData, replies, stored_score)))

PeerScoreOverride ==
    Idle /\ \E clr \in Callers : \E request \in OverrideData :
        Handle("peer_score_override", clr, request, DefaultReplies,
               require_course_staff("STUDENT_INFO", XBlock(clr), stored_score,
                   peer_score_override(XBlock(clr), request, DefaultReplies, stored_score)))

RenderStudentInfo ==
    Idle /\ \E clr \in Callers : \E request \in StudentData :
        \E replies \in StudentReplies(clr, request.student_id) :
            Handle("render_student_info", clr, request, replies,
                   require_course_staff("STUDENT_INFO", XBlock(clr), stored_score,
                       render_student_info(XBlock(clr), request, replies, stored_score)))

RescheduleUnfinishedTasks ==
    Idle /\ \E clr \in Callers : \E replies \in RescheduleTaskReplies(clr) :
        Handle("reschedule_unfinished_tasks", clr, NoData, replies,
               require_global_admin("RESCHEDULE_TASKS", XBlock(clr), stored_score,
                   reschedule_unfinished_tasks(XBlock(clr), NoData, replies, stored_score)))

Next ==
    \/ RenderStaffInfo
    \/ ScheduleTraining
    \/ PeerScoreOverride
    \/ RenderStudentInfo
    \/ RescheduleUnfinishedTasks
    \/ Respond

Spec == Init /\ [][Next]_vars

-----------------------------------------------------------------------------
(* Properties *)

AdminOps == {"schedule_training", "reschedule_unfinished_tasks"}

StaffOps == {"render_staff_info", "render_student_info", "peer_score_override"}

Configured(step) == In(step, rubric_assessments)

Rendered(name) == op = name /\ body /\ response.kind = "rendered"

\* C1: the decorated function of schedule_training and
\* reschedule_unfinished_tasks runs iff the caller is a global admin outside
\* preview mode; that of render_staff_info, render_student_info and
\* peer_score_override runs iff the caller is course staff outside preview
\* mode; in preview mode all five are denied, whatever the role.
C1_PermissionGate ==
    /\ op \in AdminOps => (body <=> (caller.is_admin /\ ~caller.in_studio_preview))
    /\ op \in StaffOps => (body <=> (caller.is_course_staff /\ ~caller.in_studio_preview))
    /\ (op # "none" /\ caller.in_studio_preview) => ~body

C1_Witness ==
    /\ op = "schedule_training"
    /\ caller.is_admin /\ caller.is_course_staff /\ caller.in_studio_preview
    /\ ~body

DenialMessage ==
    [schedule_training |-> "You do not have permission to schedule training",
     reschedule_unfinished_tasks |-> "You do not have permission to reschedule tasks.",
     render_staff_info |-> "You do not have permission to access staff information",
     render_student_info |-> "You do not have permission to access student information.",
     peer_score_override |-> "You do not have permission to access student information."]

\* C2: a denied request has made no collaborator call at all, and its result
\* is the structured denial with the fixed message of the operation's key
\* (a success=false dict for the admin tier, the error fragment for the staff
\* tier), never a raised exception.
C2_DenialBeforeAnyCall ==
    (op # "none" /\ ~body) =>
        /\ calls = <<>>
        /\ response.kind # "raised"
        /\ op \in AdminOps =>
               response = [kind |-> "json",
                           value |-> [success |-> FALSE, msg |-> DenialMessage[op]]]
        /\ op \in StaffOps =>
               response = [kind |-> "error", msg |-> DenialMessage[op]]

C2_Witness ==
    /\ op = "reschedule_unfinished_tasks"
    /\ ~body
    /\ response.kind = "json"
    /\ api.reschedule_unfinished_tasks = Reply(None)

\* C3: an authorized schedule_training on an item without
\* example-based-assessment configuration answers success=false with the
\* "not configured" message and no workflow_uuid, and never calls
\* ai_api.train_classifiers.
C3_NotConfigured ==
    (op = "schedule_training" /\ body /\ ~Configured(EBA)) =>
        /\ response.kind = "json"
        /\ response.value.success = FALSE
        /\ response.value.msg = "Example Based Assessment is not configured for this location."
        /\ "workflow_uuid" \notin DOMAIN response.value
        /\ ~Called(calls, "train_classifiers")

C3_Witness ==
    /\ op = "schedule_training"
    /\ body
    /\ ~Configured(EBA)
    /\ response.kind = "json"

\* C4: an authorized schedule_training (configuration present) or
\* reschedule_unfinished_tasks calls its backend exactly once; an AI error
\* becomes success=false with the error's message embedded, not an exception;
\* an accepted request becomes success=true, and schedule_training returns
\* exactly the workflow uuid the backend returned.
C4_OneBackendCall ==
    /\ (op = "schedule_training" /\ body /\ Configured(EBA)) =>
           /\ CountCalls(calls, "train_classifiers") = 1
           /\ response.kind = "json"
           /\ IF api.train_classifiers.raises
              THEN /\ response.value.success = FALSE
                   /\ response.value.msg =
                          "An error occurred scheduling classifier training: "
                          \o api.train_classifiers.value
                   /\ "workflow_uuid" \notin DOMAIN response.value
              ELSE /\ response.value.success = TRUE
                   /\ response.value.workflow_uuid = api.train_classifiers.value
    /\ (op = "reschedule_unfinished_tasks" /\ body) =>
           /\ CountCalls(calls, "reschedule_unfinished_tasks") = 1
           /\ response.kind = "json"
           /\ IF api.reschedule_unfinished_tasks.raises
              THEN /\ response.value.success = FALSE
                   /\ response.value.msg =
                          "An error occurred while rescheduling tasks: "
                          \o api.reschedule_unfinished_tasks.value
              ELSE response.value.success = TRUE

C4_Witness ==
    /\ op = "reschedule_unfinished_tasks"
    /\ body
    /\ api.reschedule_unfinished_tasks.raises
    /\ response.kind = "json"
    /\ response.value.success = FALSE

StrategyFetches == {"get_assessments", "get_submitted_assessments",
                    "get_data_for_override_score", "get_assessment",
                    "get_latest_assessment"}

Unset(criteria) == \A i \in DOMAIN criteria : "total_value" \notin DOMAIN criteria[i]

\* C5: when get_student_info_path_and_context resolves no submission (no
\* student_id, or a student without a submission), no per-strategy fetch and
\* no max-score fetch is made, and the context has submission=None, empty
\* peer_assessments and submitted_assessments, no self_assessment, no
\* example_based_assessment and every total_value unset, whatever steps are
\* configured and whatever the collaborators would return.
C5_NoSubmissionShortCircuits ==
    (op = "render_student_info" /\ body /\ data.student_id \in {"", "s3"}) =>
        /\ \A i \in DOMAIN calls :
               calls[i].api \notin StrategyFetches \cup {"get_rubric_max_scores"}
        /\ response.kind = "rendered"
        /\ response.context.submission = None
        /\ response.context.peer_assessments = <<>>
        /\ response.context.submitted_assessments = <<>>
        /\ response.context.self_assessment = None
        /\ response.context.example_based_assessment = None
        /\ Unset(response.context.rubric_criteria)

\* what the configured strategies hold for the student of the last request
Assessed ==
    \/ Configured(PEER) /\ api.get_assessments # <<>>
    \/ Configured(SELF) /\ api.get_assessment # None
    \/ Configured(EBA) /\ ~api.get_latest_assessment.raises
                       /\ api.get_latest_assessment.value # None

Backfilled(criteria) ==
    /\ DOMAIN criteria = DOMAIN InitialRubric
    /\ \A i \in DOMAIN criteria :
           /\ criteria[i].name = InitialRubric[i].name
           /\ "total_value" \in DOMAIN criteria[i]
           /\ criteria[i].total_value = api.get_rubric_max_scores[criteria[i].name]

\* C6: in the context of a student with a submission, with no assessment of
\* any configured strategy every criterion's total_value is unset and the
\* max-score table is not fetched; with at least one (peer received, self or
\* example-based) every criterion's total_value is the table's max score for
\* the criterion's name; the block's own criteria are never changed.
C6_Backfill ==
    /\ Unset(rubric_criteria)
    /\ rubric_criteria = InitialRubric
    /\ (Rendered("render_student_info") /\ data.student_id \in {"s1", "s2"}) =>
           IF Assessed
           THEN Backfilled(response.context.rubric_criteria)
           ELSE /\ response.context.rubric_criteria = InitialRubric
                /\ ~Called(calls, "get_rubric_max_scores")

C6_Witness ==
    /\ Rendered("render_student_info")
    /\ data.student_id = "s2"
    /\ api.get_assessments = <<>>
    /\ Configured(SELF) /\ api.get_assessment # None
    /\ Backfilled(response.context.rubric_criteria)
    /\ api.get_rubric_max_scores["ideas"] # api.get_rubric_max_scores["content"]


\* the calls render_student_info makes for student s1 (submission u1), in
\* order, up to the last per-strategy fetch
FetchesForS1 ==
    LET item == [get_student_item_dict(XBlock(caller)) EXCEPT !.student_id = "s1"]
    IN  << Call("get_student_item_dict", <<>>),
           Call("get_submissions", <<item, 1>>),
           Call("get_download_url", <<"k1">>) >>
        \o (IF Configured(PEER)
            THEN << Call("get_assessments", <<{"u1"}>>),
                    Call("get_submitted_assessments", <<{"u1"}, FALSE>>),
                    Call("get_data_for_override_score",
                         <<{"u1"}, item, create_rubric_dict("Prompt", InitialRubric)>>),
                    Call("is_closed", <<PEER, FALSE>>) >>
            ELSE <<>>)
        \o (IF Configured(SELF) THEN <<Call("get_assessment", <<{"u1"}>>)>> ELSE <<>>)
        \o (IF Configured(EBA) THEN <<Call("get_latest_assessment", <<{"u1"}>>)>> ELSE <<>>)

\* the last request, had the file's download URL been resolved
WithUrlResolved ==
    render_student_info(XBlock(caller), data,
                        [api EXCEPT !.get_download_url = Reply("url1")], stored_score)

\* C7: when the download URL of the submission's uploaded file cannot be
\* resolved (file-upload error), render_student_info still makes every
\* per-strategy fetch of the configured steps and the context's assessments,
\* rubric criteria and scores are what they are when the resolution
\* succeeds; only the submission's image_url is missing.
C7_FileErrorAbsorbed ==
    (op = "render_student_info" /\ body /\ data.student_id = "s1"
        /\ api.get_download_url.raises) =>
        /\ SubSeq(calls, 1, Len(FetchesForS1)) = FetchesForS1
        /\ response.kind = WithUrlResolved.response.kind
        /\ response.kind = "raised" <=>
               (Configured(EBA) /\ api.get_latest_assessment.raises)
        /\ response.kind = "rendered" =>
               LET context == response.context
                   resolved == WithUrlResolved.response.context
               IN  /\ context.submission =
                          {[uuid |-> "u1", answer |-> [text |-> "a1", file_key |-> "k1"]]}
                   /\ resolved.submission =
                          {[uuid |-> "u1", answer |-> [text |-> "a1", file_key |-> "k1"],
                            image_url |-> "url1"]}
                   /\ context.peer_assessments =
                          (IF Configured(PEER) THEN api.get_assessments ELSE <<>>)
                   /\ context.submitted_assessments =
                          (IF Configured(PEER) THEN api.get_submitted_assessments ELSE <<>>)
                   /\ context.self_assessment =
                          (IF Configured(SELF) THEN api.get_assessment ELSE None)
                   /\ context.example_based_assessment =
                          (IF Configured(EBA) THEN api.get_latest_assessment.value ELSE None)
                   /\ context.problem_closed =
                          (IF Configured(PEER) THEN {api.is_closed[PEER].closed} ELSE None)
                   /\ IF Assessed THEN Backfilled(context.rubric_criteria)
                      ELSE context.rubric_criteria = InitialRubric
                   /\ [k \in DOMAIN context \ {"submission"} |-> context[k]]
                          = [k \in DOMAIN resolved \ {"submission"} |-> resolved[k]]
                   /\ WithUrlResolved.calls = calls

C7_Witness ==
    /\ Rendered("render_student_info")
    /\ data.student_id = "s1"
    /\ api.get_download_url.raises
    /\ response.context.peer_assessments # <<>>
    /\ "image_url" \notin DOMAIN (CHOOSE x \in response.context.submission : TRUE)
    /\ Backfilled(response.context.rubric_criteria)

\* C8: no operation lets an AI error or a file-upload error of a
\* collaborator escape: every request ends in a returned result.
C8_NoTypedFailureEscapes == response.kind # "raised"

\* C8, amended: schedule_training and reschedule_unfinished_tasks turn an AI
\* error of their backend call into success=false, and render_student_info
\* absorbs a file-upload error; an AI error of render_staff_info's
\* classifier-set lookup or of render_student_info's example-based fetch is
\* not caught and escapes, and nowhere else does a typed error escape.
C8_EscapesOnlyFromAIReads ==
    /\ response.kind = "raised" <=>
           /\ body
           /\ \/ /\ op = "render_staff_info"
                 /\ caller.is_admin /\ Configured(EBA)
                 /\ api.get_classifier_set_info.raises
              \/ /\ op = "render_student_info"
                 /\ Configured(EBA)
                 /\ api.get_latest_assessment.raises
    /\ response.kind = "raised" => response.error = "AIError"
    /\ (op = "schedule_training" /\ body /\ api.train_classifiers.raises) =>
           response.kind = "json" /\ response.value.success = FALSE
    /\ (op = "reschedule_unfinished_tasks" /\ body
           /\ api.reschedule_unfinished_tasks.raises) =>
           response.kind = "json" /\ response.value.success = FALSE

C8_Witness ==
    /\ op = "render_staff_info"
    /\ body
    /\ api.get_classifier_set_info.raises
    /\ response.kind = "raised"
    /\ Called(calls, "get_classifier_set_info")

ForwardedItem ==
    [get_student_item_dict(XBlock(caller)) EXCEPT !.student_id = data.student_id]

OverrideScore ==
    {[points_earned |-> data.points_override, points_possible |-> data.points_possible]}

\* C9: after every authorized peer_score_override the stored score of the
\* student is that of this call.
C9_LastCallIsStored ==
    (op = "peer_score_override" /\ body) => stored_score[data.student_id] = OverrideScore

\* what an authorized peer_score_override request leaves behind
C9_Forwarded ==
    (op = "peer_score_override" /\ body) =>
        /\ calls = << Call("get_student_item_dict", <<>>),
                      Call("score_override",
                           <<ForwardedItem, data.points_override, data.points_possible>>) >>
        /\ response = [kind |-> "json",
                       value |-> score_override(stored_score, ForwardedItem,
                                                data.points_override,
                                                data.points_possible).result]
        /\ response.value.success <=> data.points_override <= data.points_possible
        /\ response.value.success => stored_score[data.student_id] = OverrideScore
        /\ score_override(stored_score, ForwardedItem, data.points_override,
                          data.points_possible).store = stored_score

\* what an authorized peer_score_override request changes in the store
C9_Written ==
    (op' = "peer_score_override" /\ body') =>
        /\ \A s \in Students \ {data'.student_id} : stored_score'[s] = stored_score[s]
        /\ stored_score'[data'.student_id] =
               IF data'.points_override <= data'.points_possible
               THEN {[points_earned |-> data'.points_override,
                      points_possible |-> data'.points_possible]}
               ELSE stored_score[data'.student_id]

\* C9, amended: every authorized peer_score_override forwards exactly the
\* supplied points_override and points_possible with the request's student
\* item whose student_id is the supplied one, validates nothing itself and
\* returns the backend's result unmodified; a call the backend accepts
\* overwrites the student's stored score unconditionally and one it rejects
\* leaves it as it was, so the stored score is that of the last accepted
\* call, and re-applying the same values leaves it unchanged.
C9_OverrideForwarded == [] C9_Forwarded /\ [][C9_Written]_vars

C9_Witness ==
    /\ op = "peer_score_override"
    /\ body
    /\ data.points_override > data.points_possible
    /\ response.value.success = FALSE
    /\ stored_score[data.student_id] # None

IsDated(step) == step # EBA

\* C10: step_dates has one entry per step of "submission" followed by the
\* configured steps in order, without "example-based-assessment"; an entry's
\* start is absent exactly when the student-visible start date is the
\* distant-past sentinel, its due exactly when the due date is the
\* distant-future sentinel, and otherwise it is the resolved date.
C10_StepDates ==
    Rendered("render_staff_info") =>
        LET entries == response.context.step_dates
            shown == SelectSeq(<<"submission">> \o rubric_assessments, IsDated)
        IN  /\ Len(entries) = Len(shown)
            /\ entries[1].step = "submission"
            /\ \A i \in DOMAIN shown :
                   LET window == api.is_closed[shown[i]]
                   IN  /\ entries[i].step = shown[i]
                       /\ entries[i].start = None <=> window.start = DISTANT_PAST
                       /\ entries[i].start # None => entries[i].start = {window.start}
                       /\ entries[i].due = None <=> window.due = DISTANT_FUTURE
                       /\ entries[i].due # None => entries[i].due = {window.due}

C10_Witness ==
    /\ Rendered("render_staff_info")
    /\ Configured(EBA)
    /\ Len(response.context.step_dates) = Len(rubric_assessments)
    /\ \E i \in DOMAIN response.context.step_dates :
           /\ response.context.step_dates[i].start = None
           /\ response.context.step_dates[i].due # None
    /\ \E i \in DOMAIN response.context.step_dates :
           /\ response.context.step_dates[i].start # None
           /\ response.context.step_dates[i].due = None

====
